---- MODULE Spec2Model ----
(***************************************************************************)
(* Model of rex: the file operation engine (src/fs_ops.rs), the bounded    *)
(* undo log (src/history.rs) and the command layer that ties them together *)
(* (src/main.rs).                                                          *)
(*                                                                         *)
(* A filesystem is a function from the paths that exist (sequences of      *)
(* names, <<>> is the root) to "dir" or, for a file, its content.          *)
(* std::fs calls follow their documented Unix behaviour.                   *)
(***************************************************************************)
EXTENDS Integers, Sequences, FiniteSets, TLC

VARIABLES fs, ops_hist, pre, call, prev, nops, pushed, evicted, popped, ret, hpre,
          clipboard, cpre, pcall,
          search_query, denied, scan, abort, rx, view_mode, old_scan, old_abort,
          nav_hist, current_path, nav_call, job

vars == <<fs, ops_hist, pre, call, prev, nops, pushed, evicted, popped, ret, hpre,
          clipboard, cpre, pcall, search_query, denied, scan, abort, rx, view_mode, old_scan, old_abort,
          nav_hist, current_path, nav_call, job>>

(***************************************************************************)
(* Bounds                                                                  *)
(***************************************************************************)
\* mutation commands issued in one behaviour (undo commands come on top)
MaxOps == 1
\* longest path (in components) the filesystem accepts (ENAMETOOLONG beyond)
MaxDepth == 4
\* the injected I/O fault hits the k-th fallible call of a copy, k <= MaxFault
MaxFault == 3
\* largest capacity an OpsHistory is constructed with in HistSpec
MaxCap == 3
\* pushes issued in one behaviour of HistSpec
MaxPush == 5
\* longest item vector handed to Clipboard::set
MaxItems == 2

(***************************************************************************)
(* Paths                                                                   *)
(***************************************************************************)
Root == <<>>
\* config::trash_dir(): one fixed directory of the environment
trash_dir == <<"t">>
\* mount point of a second storage device
Mount == <<"m">>

Names == {"a", "b"}

parent(p) == SubSeq(p, 1, Len(p) - 1)
file_name(p) == p[Len(p)]
join(dir, name) == dir \o <<name>>
with_file_name(p, name) == join(parent(p), name)
starts_with(p, base) == Len(base) <= Len(p) /\ SubSeq(p, 1, Len(base)) = base

Dev(p) == IF starts_with(p, Mount) THEN 2 ELSE 1

(***************************************************************************)
(* Filesystem queries                                                      *)
(***************************************************************************)
exists(f, p) == p \in DOMAIN f
is_dir(f, p) == p \in DOMAIN f /\ f[p] = "dir"
is_file(f, p) == p \in DOMAIN f /\ f[p] # "dir"

Under(f, p) == {q \in DOMAIN f : starts_with(q, p)}
Entries(f, p) == {q \in DOMAIN f : Len(q) = Len(p) + 1 /\ starts_with(q, p)}
\* the tree rooted at p, as a function of the paths relative to p
Tree(f, p) ==
    [r \in {SubSeq(q, Len(p) + 1, Len(q)) : q \in Under(f, p)} |-> f[p \o r]]
\* f without the tree rooted at p
Without(f, p) == [q \in DOMAIN f \ Under(f, p) |-> f[q]]
\* f with the tree t planted at p
Plant(f, p, t) ==
    [q \in DOMAIN f \cup {p \o r : r \in DOMAIN t} |->
        IF starts_with(q, p) /\ SubSeq(q, Len(p) + 1, Len(q)) \in DOMAIN t
        THEN t[SubSeq(q, Len(p) + 1, Len(q))] ELSE f[q]]

Prefixes(p) == {SubSeq(p, 1, n) : n \in 0..Len(p)}

RECURSIVE SetToSeq(_)
SetToSeq(S) ==
    IF S = {} THEN <<>>
    ELSE LET x == CHOOSE y \in S : TRUE IN <<x>> \o SetToSeq(S \ {x})

\* fs::read_dir: the entries of p, in the order the directory yields them
read_dir(f, p) == SetToSeq(Entries(f, p))

(***************************************************************************)
(* std::fs calls.  Each returns [ok, fs, k]: whether it succeeded, the     *)
(* filesystem it leaves, and the fault countdown.  k = 1 makes the call    *)
(* fail with an I/O error (disk full, permission denied); k = 0 is an      *)
(* environment without faults.                                             *)
(***************************************************************************)
Tick(k) == IF k > 1 THEN k - 1 ELSE 0
Res(ok, f, k) == [ok |-> ok, fs |-> f, k |-> k]

create_dir_all(f, p, k) ==
    IF is_dir(f, p) THEN Res(TRUE, f, k)
    ELSE IF k = 1 THEN Res(FALSE, f, 0)
    ELSE IF Len(p) > MaxDepth THEN Res(FALSE, f, Tick(k))
    ELSE IF \E q \in Prefixes(p) : is_file(f, q) THEN Res(FALSE, f, Tick(k))
    ELSE Res(TRUE,
             [q \in DOMAIN f \cup Prefixes(p) |-> IF q \in DOMAIN f THEN f[q] ELSE "dir"],
             Tick(k))

fs_copy(f, from, to, k) ==
    IF k = 1 THEN Res(FALSE, f, 0)
    ELSE IF ~is_file(f, from) \/ Len(to) > MaxDepth THEN Res(FALSE, f, Tick(k))
    ELSE IF is_dir(f, to) \/ ~is_dir(f, parent(to)) THEN Res(FALSE, f, Tick(k))
    ELSE IF from = to THEN Res(TRUE, [f EXCEPT ![to] = ""], Tick(k))
    ELSE Res(TRUE, [q \in DOMAIN f \cup {to} |-> IF q = to THEN f[from] ELSE f[q]], Tick(k))

\* rename(2): replaces an existing file or empty directory of the same kind
fs_rename(f, from, to) ==
    IF ~exists(f, from) \/ ~is_dir(f, parent(to)) THEN Res(FALSE, f, 0)
    ELSE IF Dev(from) # Dev(to) THEN Res(FALSE, f, 0)
    ELSE IF from = to THEN Res(TRUE, f, 0)
    ELSE IF starts_with(to, from) THEN Res(FALSE, f, 0)
    ELSE IF exists(f, to) /\ is_dir(f, from) /\ (is_file(f, to) \/ Entries(f, to) # {})
         THEN Res(FALSE, f, 0)
    ELSE IF exists(f, to) /\ is_file(f, from) /\ is_dir(f, to) THEN Res(FALSE, f, 0)
    ELSE Res(TRUE, Plant(Without(Without(f, to), from), to, Tree(f, from)), 0)

fs_remove_dir_all(f, p) == Res(TRUE, Without(f, p), 0)

fs_remove_file(f, p) ==
    IF is_file(f, p) THEN Res(TRUE, Without(f, p), 0) ELSE Res(FALSE, f, 0)

(***************************************************************************)
(* fs_ops.rs: the private helpers                                          *)
(***************************************************************************)
RECURSIVE copy_rec(_, _, _, _), copy_entries(_, _, _, _)
copy_rec(f, from, to, k) ==
    IF is_dir(f, from)
    THEN LET c == create_dir_all(f, to, k)
         IN IF ~c.ok THEN c
            ELSE IF c.k = 1 THEN Res(FALSE, c.fs, 0)
            ELSE copy_entries(c.fs, read_dir(c.fs, from), to, Tick(c.k))
    ELSE LET c == create_dir_all(f, parent(to), k)
         IN IF ~c.ok THEN c ELSE fs_copy(c.fs, from, to, c.k)

\* copy_entries that stops after the first entry
copy_entries_first(f, es, to, k) ==
    IF es = <<>> THEN Res(TRUE, f, k)
    ELSE copy_rec(f, Head(es), join(to, file_name(Head(es))), k)

\* the loop of copy_rec over the entries read from the source directory
copy_entries(f, es, to, k) ==
    IF es = <<>> THEN Res(TRUE, f, k)
    ELSE LET r == copy_rec(f, Head(es), join(to, file_name(Head(es))), k)
         IN IF ~r.ok THEN r ELSE copy_entries(r.fs, Tail(es), to, r.k)

remove_rec(f, p) ==
    IF is_dir(f, p) THEN fs_remove_dir_all(f, p) ELSE fs_remove_file(f, p)

\* [ok, fs, k, via]: via names the branch move_rec took
Moved(r, via) == [ok |-> r.ok, fs |-> r.fs, k |-> r.k, via |-> via]

\* move_rec without the `?` on copy_rec: the source is removed whatever the copy did
move_rec_unchecked(f, from, to, k) ==
    LET c == IF to = Root THEN Res(TRUE, f, k) ELSE create_dir_all(f, parent(to), k)
    IN IF ~c.ok THEN Moved(c, "parent_failed")
       ELSE LET r == fs_rename(c.fs, from, to)
            IN IF r.ok THEN Moved(Res(TRUE, r.fs, c.k), "renamed")
               ELSE LET cp == copy_rec(c.fs, from, to, c.k)
                        rm == remove_rec(cp.fs, from)
                    IN IF ~cp.ok THEN Moved(Res(FALSE, rm.fs, cp.k), "copy_failed")
                       ELSE Moved(Res(rm.ok, rm.fs, cp.k), "copied_removed")

move_rec(f, from, to, k) ==
    LET c == IF to = Root THEN Res(TRUE, f, k) ELSE create_dir_all(f, parent(to), k)
    IN IF ~c.ok THEN Moved(c, "parent_failed")
       ELSE LET r == fs_rename(c.fs, from, to)
            IN IF r.ok THEN Moved(Res(TRUE, r.fs, c.k), "renamed")
               ELSE LET cp == copy_rec(c.fs, from, to, c.k)
                    IN IF ~cp.ok THEN Moved(cp, "copy_failed")
                       ELSE LET rm == remove_rec(cp.fs, from)
                            IN Moved(Res(rm.ok, rm.fs, cp.k), "copied_removed")

Numbered(name, idx) == name \o " (" \o ToString(idx) \o ")"

RECURSIVE unique_from(_, _, _, _)
\* the loop of unique_in, entered with the counter at idx
unique_from(f, dir, name, idx) ==
    IF ~exists(f, join(dir, Numbered(name, idx))) THEN join(dir, Numbered(name, idx))
    ELSE unique_from(f, dir, name, idx + 1)

\* unique_in whose counter starts at 2
unique_in_from_two(f, dir, name) ==
    IF ~exists(f, join(dir, name)) THEN join(dir, name)
    ELSE unique_from(f, dir, name, 2)

unique_in(f, dir, name) ==
    IF ~exists(f, join(dir, name)) THEN join(dir, name)
    ELSE unique_from(f, dir, name, 1)

(***************************************************************************)
(* fs_ops.rs: the operations.  Each returns [ok, fs, op, via, faulted]:    *)
(* op is the record (Op) of a successful call, NoOp otherwise.             *)
(***************************************************************************)
NoOp == [kind |-> "None"]
Out(r, op, dst, via, k) ==
    [ok |-> r.ok, fs |-> r.fs, op |-> IF r.ok THEN op ELSE NoOp, dst |-> dst,
     via |-> via, faulted |-> k > 0 /\ r.k = 0]

\* copy that numbers a taken name with (1) without probing further
copy_numbered_once(f, from, to_dir, k) ==
    LET name == file_name(from)
        dst == IF exists(f, join(to_dir, name)) THEN join(to_dir, Numbered(name, 1))
               ELSE join(to_dir, name)
        r == copy_rec(f, from, dst, k)
    IN Out(r, [kind |-> "Copy", to |-> dst], dst, "copied", k)

copy(f, from, to_dir, k) ==
    LET dst == unique_in(f, to_dir, file_name(from))
        r == copy_rec(f, from, dst, k)
    IN Out(r, [kind |-> "Copy", to |-> dst], dst, "copied", k)

\* mv straight onto to_dir/name, without unique_in
mv_same_name(f, from, to_dir, k) ==
    LET dst == join(to_dir, file_name(from))
        r == move_rec(f, from, dst, k)
    IN Out(r, [kind |-> "Move", from |-> from, to |-> dst], dst, r.via, k)

mv(f, from, to_dir, k) ==
    LET dst == unique_in(f, to_dir, file_name(from))
        r == move_rec(f, from, dst, k)
    IN Out(r, [kind |-> "Move", from |-> from, to |-> dst], dst, r.via, k)

rename(f, from, new_name, k) ==
    LET to == with_file_name(from, new_name)
        r == move_rec(f, from, to, k)
    IN Out(r, [kind |-> "Rename", from |-> from, to |-> to], to, r.via, k)

\* mkdir through fs::create_dir: no parents made, an existing directory is an error
mkdir_create_dir(f, where, name, k) ==
    LET dst == join(where, name)
        r == IF exists(f, dst) \/ ~is_dir(f, where) THEN Res(FALSE, f, k)
             ELSE create_dir_all(f, dst, k)
    IN Out(r, [kind |-> "MkDir", path |-> dst], dst, "created", k)

mkdir(f, where, name, k) ==
    LET dst == join(where, name)
        r == create_dir_all(f, dst, k)
    IN Out(r, [kind |-> "MkDir", path |-> dst], dst, "created", k)

\* OpenOptions::new().create(true).write(true).open(): no truncation
fs_open_create(f, p, k) ==
    IF k = 1 THEN Res(FALSE, f, 0)
    ELSE IF is_dir(f, p) \/ ~is_dir(f, parent(p)) \/ Len(p) > MaxDepth THEN Res(FALSE, f, Tick(k))
    ELSE Res(TRUE, [q \in DOMAIN f \cup {p} |-> IF q \in DOMAIN f THEN f[q] ELSE ""], Tick(k))

touch(f, where, name, k) ==
    LET dst == join(where, name)
        c == create_dir_all(f, parent(dst), k)
        r == IF ~c.ok THEN c ELSE fs_open_create(c.fs, dst, c.k)
    IN Out(r, [kind |-> "Touch", path |-> dst], dst, "created", k)

\* delete_to_trash that takes the name as it is, without unique_in
delete_to_trash_same_name(f, p, k) ==
    LET c == create_dir_all(f, trash_dir, k)
        dst == join(trash_dir, file_name(p))
        r == IF ~c.ok THEN Moved(c, "parent_failed") ELSE move_rec(c.fs, p, dst, c.k)
    IN Out(r, [kind |-> "Delete", trashed |-> dst, original |-> p], dst, r.via, k)

delete_to_trash(f, p, k) ==
    LET c == create_dir_all(f, trash_dir, k)
        dst == unique_in(c.fs, trash_dir, file_name(p))
        r == IF ~c.ok THEN Moved(c, "parent_failed") ELSE move_rec(c.fs, p, dst, c.k)
    IN Out(r, [kind |-> "Delete", trashed |-> dst, original |-> p], dst, r.via, k)

\* the path undo acts on, and the path it moves that one back to
UndoSource(op) ==
    CASE op.kind = "Copy" -> op.to
      [] op.kind \in {"Move", "Rename"} -> op.to
      [] op.kind = "Delete" -> op.trashed
      [] op.kind \in {"MkDir", "Touch"} -> op.path
UndoTarget(op) ==
    CASE op.kind \in {"Move", "Rename"} -> op.from
      [] op.kind = "Delete" -> op.original
      [] OTHER -> UndoSource(op)

undo(f, op, k) ==
    LET r == CASE op.kind = "Copy" -> Moved([remove_rec(f, op.to) EXCEPT !.k = k], "removed")
               [] op.kind \in {"Move", "Rename"} -> move_rec(f, op.to, op.from, k)
               [] op.kind = "Delete" -> move_rec(f, op.trashed, op.original, k)
               [] op.kind \in {"MkDir", "Touch"} ->
                    Moved([remove_rec(f, op.path) EXCEPT !.k = k], "removed")
    IN Out(r, NoOp, UndoTarget(op), r.via, k)

(***************************************************************************)
(* history.rs: OpsHistory                                                  *)
(***************************************************************************)
\* the capacity main.rs constructs its undo log with
HistCapacity == 64

OpsHistory_new(cap) == [undo |-> <<>>, capacity |-> cap]
\* #[derive(Default)]: an empty deque and capacity 0
OpsHistory_default == [undo |-> <<>>, capacity |-> 0]

\* VecDeque::pop_front, its return value dropped
pop_front(q) == IF q = <<>> THEN q ELSE Tail(q)

push(h, op) ==
    LET u == IF Len(h.undo) = h.capacity THEN pop_front(h.undo) ELSE h.undo
    IN [h EXCEPT !.undo = Append(u, op)]

\* pop_undo that takes the oldest record (pop_front) instead of the newest
pop_undo_oldest(h) ==
    IF h.undo = <<>> THEN [h |-> h, some |-> FALSE, op |-> NoOp]
    ELSE [h |-> [h EXCEPT !.undo = Tail(h.undo)], some |-> TRUE, op |-> h.undo[1]]

\* [h, some, op]: the log after the call and the Option<Op> it returns
pop_undo(h) ==
    IF h.undo = <<>> THEN [h |-> h, some |-> FALSE, op |-> NoOp]
    ELSE [h |-> [h EXCEPT !.undo = SubSeq(h.undo, 1, Len(h.undo) - 1)],
          some |-> TRUE, op |-> h.undo[Len(h.undo)]]

(***************************************************************************)
(* The filesystems a behaviour starts from                                 *)
(***************************************************************************)
Base == (Root :> "dir") @@ (Mount :> "dir")

InitFs ==
    { Base @@ (<<"a">> :> "x") @@ (<<"b">> :> "dir") @@ (<<"b", "a">> :> "y"),
      Base @@ (<<"a">> :> "dir") @@ (<<"a", "a">> :> "x") @@ (<<"a", "b">> :> "dir")
           @@ (<<"b">> :> "dir"),
      Base @@ (<<"a">> :> "dir") @@ (<<"a", "a">> :> "x")
           @@ (<<"b">> :> "dir") @@ (<<"b", "a">> :> "y") @@ (<<"b", "b">> :> "z"),
      Base @@ (<<"a">> :> "x") @@ (<<"b">> :> "y")
           @@ (trash_dir :> "dir") @@ (<<"t", "a">> :> "w"),
      Base @@ (<<"m", "a">> :> "x") @@ (<<"m", "b">> :> "dir") @@ (<<"m", "b", "a">> :> "y")
           @@ (<<"m", "b", "b">> :> "dir") @@ (<<"a">> :> "dir"),
      Base @@ (<<"a">> :> "dir") @@ (<<"a", "a">> :> "dir") @@ (<<"a", "a", "a">> :> "x")
           @@ (<<"m", "a">> :> "dir") @@ (<<"m", "a", "b">> :> "y")
           @@ (trash_dir :> "dir"),
      Base @@ (<<"a.txt">> :> "x") @@ (<<"b">> :> "dir") @@ (<<"b", "a.txt">> :> "y")
           @@ (<<"b", "a.txt (1)">> :> "z") }

\* what a command can be pointed at: an entry shown in the browser
Sources(f) == DOMAIN f \ {Root, Mount, trash_dir}
\* a directory to paste or create into; <<"n">> does not exist yet
NewDir == <<"n">>
Dirs(f) == {p \in DOMAIN f : f[p] = "dir" /\ Len(p) <= 1} \cup {NewDir}
Faults == 0..MaxFault

(***************************************************************************)
(* The command layer (main.rs): run one engine operation, push its record  *)
(* on success.  call describes the last command, pre is the filesystem it  *)
(* started from, prev is the (call, pre) of the command before it.         *)
(***************************************************************************)
NoCall == [op |-> "none", src |-> Root, dir |-> Root, name |-> "", ok |-> FALSE,
           rec |-> NoOp, dst |-> Root, via |-> "", faulted |-> FALSE]
Call(op, src, dir, name, r, rec) ==
    [op |-> op, src |-> src, dir |-> dir, name |-> name, ok |-> r.ok,
     rec |-> rec, dst |-> r.dst, via |-> r.via, faulted |-> r.faulted]

\* Clipboard::default and the ghosts of the paste layer
Clipboard_default == [items |-> <<>>, mode |-> "None", last_paste_targets |-> <<>>]
NoPaste == [mode |-> "None", items |-> <<>>, any_ok |-> FALSE, res |-> <<>>]
ClipVarsUnchanged == UNCHANGED <<clipboard, cpre, pcall>>

\* no copy or move under way
NoJob == [pc |-> "idle", op |-> "none", from |-> Root, dst |-> Root, stack |-> <<>>,
          ok |-> FALSE, k |-> 0, fault |-> 0, via |-> ""]

\* NavHistory::default, the browser at the root, no navigation call made yet
NavHistory_default == [back |-> <<>>, forward |-> <<>>]
NoNav == [op |-> "none", ret |-> FALSE, pushed |-> FALSE,
          pre |-> [h |-> NavHistory_default, cur |-> Root]]
NavIdle ==
    /\ nav_hist = NavHistory_default
    /\ current_path = Root
    /\ nav_call = [NoNav EXCEPT !.pre.cur = current_path] @@ [before |-> NoNav]
    /\ job = NoJob
NavVarsUnchanged == UNCHANGED <<nav_hist, current_path, nav_call, job>>

\* no search thread spawned, no channel open, ViewMode::Browsing
NoScan == [pc |-> "none", stack |-> <<>>, files |-> 0, dirs |-> 0,
           sent_res |-> <<>>, sent_prog |-> <<>>, entered |-> {}, visited |-> {},
           sent |-> <<>>, saw |-> FALSE, first_check |-> "none"]
NoRx == [alive |-> FALSE, res |-> <<>>, prog |-> <<>>]
Browsing == [kind |-> "Browsing", results |-> <<>>, scanned_files |-> 0,
             scanned_dirs |-> 0, done |-> FALSE, polling |-> FALSE]
SearchIdle ==
    /\ search_query = <<>>
    /\ denied = {}
    /\ scan = NoScan
    /\ abort = FALSE
    /\ rx = NoRx
    /\ view_mode = Browsing
    /\ old_scan = NoScan
    /\ old_abort = FALSE
SearchVarsUnchanged ==
    /\ UNCHANGED <<search_query, denied, scan, abort, rx, view_mode, old_scan, old_abort>>
    /\ NavVarsUnchanged

HistVarsUnchanged ==
    UNCHANGED <<pushed, evicted, popped, ret>> /\ ClipVarsUnchanged /\ SearchVarsUnchanged

\* Command that pushes whatever the operation returned, Err included
Command_push_always(op, src, dir, name, r) ==
    /\ nops < MaxOps
    /\ nops' = nops + 1
    /\ fs' = r.fs
    /\ ops_hist' = push(ops_hist, r.op)
    /\ pre' = fs
    /\ prev' = [call |-> call, pre |-> pre]
    /\ call' = Call(op, src, dir, name, r, r.op)
    /\ hpre' = ops_hist
    /\ HistVarsUnchanged

\* the Ok / Err arms shared by every mutation command
Command(op, src, dir, name, r) ==
    /\ nops < MaxOps
    /\ nops' = nops + 1
    /\ fs' = r.fs
    /\ ops_hist' = IF r.ok THEN push(ops_hist, r.op) ELSE ops_hist
    /\ pre' = fs
    /\ prev' = [call |-> call, pre |-> pre]
    /\ call' = Call(op, src, dir, name, r, r.op)
    /\ hpre' = ops_hist
    /\ HistVarsUnchanged

\* one turn of paste_into's loop: the clipboard item `from` pasted in Copy mode
PasteCopy ==
    \E from \in Sources(fs), dir \in Dirs(fs), k \in Faults :
        Command("copy", from, dir, "", copy(fs, from, dir, k))

\* one turn of paste_into's loop: the clipboard item `from` pasted in Cut mode
PasteCut ==
    \E from \in Sources(fs), dir \in Dirs(fs), k \in Faults :
        Command("mv", from, dir, "", mv(fs, from, dir, k))

OnRename ==
    \E from \in Sources(fs), name \in Names, k \in Faults :
        Command("rename", from, Root, name, rename(fs, from, name, k))

OnDelete ==
    \E p \in Sources(fs), k \in Faults :
        Command("delete", p, Root, "", delete_to_trash(fs, p, k))

CreateFolder ==
    \E where \in Dirs(fs), name \in Names :
        Command("mkdir", Root, where, name, mkdir(fs, where, name, 0))

CreateFile ==
    \E where \in Dirs(fs), name \in Names :
        Command("touch", Root, where, name, touch(fs, where, name, 0))

TryUndo ==
    \E k \in Faults :
        LET p == pop_undo(ops_hist)
            r == undo(fs, p.op, k)
        IN /\ p.some
           /\ nops' = nops
           /\ ops_hist' = p.h
           /\ fs' = r.fs
           /\ pre' = fs
           /\ prev' = [call |-> call, pre |-> pre]
           /\ call' = Call("undo", UndoSource(p.op), Root, "", r, p.op)
           /\ hpre' = ops_hist
           /\ HistVarsUnchanged

Init ==
    /\ fs \in InitFs
    /\ ops_hist = OpsHistory_new(HistCapacity)
    /\ pre = fs
    /\ call = NoCall
    /\ prev = [call |-> NoCall, pre |-> fs]
    /\ nops = 0
    /\ pushed = 0
    /\ evicted = {}
    /\ popped = <<>>
    /\ ret = [op |-> "none", some |-> FALSE, val |-> 0]
    /\ hpre = ops_hist
    /\ clipboard = Clipboard_default
    /\ cpre = clipboard
    /\ pcall = NoPaste
    /\ SearchIdle
    /\ NavIdle

Next ==
    \/ PasteCopy
    \/ PasteCut
    \/ OnRename
    \/ OnDelete
    \/ CreateFolder
    \/ CreateFile
    \/ TryUndo

Spec == Init /\ [][Next]_vars

\* every path but the root lies in a directory that exists
WellFormed(f) ==
    /\ is_dir(f, Root)
    /\ \A p \in DOMAIN f : p = Root \/ is_dir(f, parent(p))

TypeOK == WellFormed(fs) /\ Len(ops_hist.undo) <= nops

(***************************************************************************)
(* Properties of the engine                                                *)
(***************************************************************************)
\* every entry of the tree at p in f is in g with the same content
Kept(f, g, p) == \A q \in Under(f, p) : q \in DOMAIN g /\ g[q] = f[q]

\* the last command was an undo issued right after the successful command
\* `op`, and popped the record that command had pushed
UndoRightAfter(op) ==
    /\ call.op = "undo"
    /\ prev.call.op = op
    /\ prev.call.ok
    /\ call.rec = prev.call.rec

\* C1: in mv, rename, delete_to_trash and undo, when the atomic rename fails
\* and the fallback copy then fails, the source is not removed: every file
\* and directory of the source tree is still there with its content (the
\* tree is exactly as before unless the destination lies inside it), the
\* call returns an error and no record reaches the log.
C1_FailedCopyKeepsSource ==
    call.via = "copy_failed" =>
        /\ ~call.ok
        /\ call.op # "undo" => (call.rec = NoOp /\ ops_hist = hpre)
        /\ call.op = "undo" => ops_hist = pop_undo(hpre).h
        /\ exists(pre, call.src) => exists(fs, call.src)
        /\ Kept(pre, fs, call.src)
        /\ ~starts_with(call.dst, call.src) => Tree(fs, call.src) = Tree(pre, call.src)

\* a fault stopped the fallback copy of a non-empty directory half way
C1_Witness ==
    /\ call.via = "copy_failed"
    /\ call.faulted
    /\ Entries(pre, call.src) # {}
    /\ fs # pre
    /\ Tree(fs, call.src) = Tree(pre, call.src)

\* C2: after every successful mv or rename the record's `from` does not
\* exist, its `to` exists, and the tree at `to` is the tree that was at `from`.
C2_MovedExactly ==
    (call.op \in {"mv", "rename"} /\ call.ok) =>
        /\ ~exists(fs, call.rec.from)
        /\ exists(fs, call.rec.to)
        /\ Tree(fs, call.rec.to) = Tree(pre, call.rec.from)

\* C3: undo right after a successful mv or rename succeeds and restores the
\* filesystem: `to` absent, `from` present with its content, the state equal
\* to the one before the mv or rename.
C3_UndoRestoresMove ==
    ((UndoRightAfter("mv") \/ UndoRightAfter("rename")) /\ ~call.faulted) =>
        /\ call.ok
        /\ ~exists(fs, call.rec.to)
        /\ exists(fs, call.rec.from)
        /\ Tree(fs, call.rec.from) = Tree(prev.pre, call.rec.from)
        /\ fs = prev.pre

\* g is f, or f plus the (empty) trash directory delete_to_trash created
SameButTrashDir(f, g) ==
    \/ g = f
    \/ ~exists(f, trash_dir) /\ g = f @@ (trash_dir :> "dir")

\* C4: a successful delete_to_trash leaves the tree of p at the record's
\* `trashed` location, and undo right after it puts the filesystem back: p
\* and its content as before the delete, nothing else changed (the trash
\* directory itself, when the delete had to create it, stays).
C4_TrashRoundTrip ==
    /\ (call.op = "delete" /\ call.ok) =>
        /\ call.rec.original = call.src
        /\ ~exists(pre, call.rec.trashed)
        /\ Tree(fs, call.rec.trashed) = Tree(pre, call.src)
    /\ (UndoRightAfter("delete") /\ ~call.faulted) =>
        /\ call.ok
        /\ exists(fs, call.rec.original)
        /\ Tree(fs, call.rec.original) = Tree(prev.pre, call.rec.original)
        /\ SameButTrashDir(prev.pre, fs)

\* a directory with entries went to the trash across devices and came back
C4_Witness ==
    /\ UndoRightAfter("delete")
    /\ call.ok
    /\ call.via = "copied_removed"
    /\ Entries(fs, call.rec.original) # {}
    /\ ~exists(fs, call.rec.trashed)

\* C5: rename onto a name already taken in the source's parent fails,
\* returns no record and leaves the filesystem as it was.
C5_RenameCollisionFails ==
    (call.op = "rename" /\ call.dst # call.src /\ exists(pre, call.dst)) =>
        /\ ~call.ok
        /\ call.rec = NoOp
        /\ fs = pre

\* C6: after a successful copy the destination named in the record exists,
\* holds the same tree as the source, and the source (with everything else
\* that existed) is unchanged.
C6_CopyFaithful ==
    (call.op = "copy" /\ call.ok) =>
        /\ call.rec = [kind |-> "Copy", to |-> call.dst]
        /\ ~exists(pre, call.rec.to)
        /\ exists(fs, call.rec.to)
        /\ Tree(fs, call.rec.to) = Tree(pre, call.src)
        /\ Tree(fs, call.src) = Tree(pre, call.src)
        /\ Kept(pre, fs, Root)

\* a directory with at least two entries was copied
C6_Witness ==
    /\ call.op = "copy"
    /\ call.ok
    /\ Cardinality(Entries(pre, call.src)) >= 2
    /\ Tree(fs, call.rec.to) = Tree(fs, call.src)

\* C7: undo right after a successful copy succeeds and leaves the whole
\* filesystem, target_dir and its ancestors included, as it was before the copy.
C7_CopyUndoNoTrace ==
    UndoRightAfter("copy") => (call.ok /\ fs = prev.pre)

(***************************************************************************)
(* Properties of the command layer and of single operations                *)
(***************************************************************************)
Mutations == {"copy", "mv", "rename", "delete", "mkdir", "touch"}

\* C12: a mutation command appends its record to the undo log exactly when
\* the operation returned Ok; on Err the log is left as it was.
C12_PushOnSuccessOnly ==
    call.op \in Mutations =>
        IF call.ok
        THEN /\ call.rec # NoOp
             /\ ops_hist = [hpre EXCEPT !.undo = Append(hpre.undo, call.rec)]
        ELSE /\ call.rec = NoOp
             /\ ops_hist = hpre

\* a command failed after changing the filesystem, and logged nothing
C12_Witness ==
    /\ call.op \in Mutations
    /\ ~call.ok
    /\ fs # pre
    /\ ops_hist.undo = <<>>

\* the k-th candidate name of unique_in, k = 0 being the name itself
Candidate(name, k) == IF k = 0 THEN name ELSE name \o " (" \o ToString(k) \o ")"

\* p is what unique_in owes for `name` in `dir` on filesystem f: directly
\* inside dir, not existing, and the first free candidate
FirstFree(f, dir, name, p) ==
    /\ parent(p) = dir
    /\ ~exists(f, p)
    /\ \E k \in 0..Cardinality(DOMAIN f) :
        /\ p = join(dir, Candidate(name, k))
        /\ \A j \in 0..(k - 1) : exists(f, join(dir, Candidate(name, j)))

\* C13: the destination unique_in computes for copy, mv and delete_to_trash
\* lies directly in the target directory, does not exist, and is the plain
\* name if that is free, else "name (k)" for the smallest free k >= 1, the
\* suffix put after the whole name.
C13_UniqueInFirstFree ==
    /\ call.op \in {"copy", "mv"} =>
            FirstFree(pre, call.dir, file_name(call.src), call.dst)
    /\ call.op = "delete" =>
            /\ FirstFree(pre, trash_dir, file_name(call.src), call.dst)
            /\ ~exists(pre, call.dst)

\* the name and its (1) were taken: the copy went to "a.txt (2)"
C13_Witness ==
    /\ call.op = "copy"
    /\ call.ok
    /\ file_name(call.src) = "a.txt"
    /\ call.dst = join(call.dir, "a.txt (2)")
    /\ exists(pre, join(call.dir, "a.txt (1)"))

\* the paths a record names as existing after the operation
RecordPaths(op) ==
    CASE op.kind \in {"Copy", "Move", "Rename"} -> {op.to}
      [] op.kind = "Delete" -> {op.trashed}
      [] op.kind \in {"MkDir", "Touch"} -> {op.path}
      [] OTHER -> {}

\* C15: every successful operation changed the filesystem, and the paths its
\* record names (to / path / trashed) exist when it returns.
C15_NoNoOpRecorded ==
    (call.op \in Mutations /\ call.ok) =>
        /\ fs # pre
        /\ \A p \in RecordPaths(call.rec) : exists(fs, p)

\* C16: mkdir on an existing directory succeeds with MkDir{path} and changes
\* nothing; a successful mkdir leaves a directory at where/name, with the
\* missing directories above it created and nothing else touched, and a
\* second mkdir of it changes nothing more; it fails only when a file is in
\* the way.
C16_MkdirIdempotent ==
    call.op = "mkdir" =>
        /\ call.dst = join(call.dir, call.name)
        /\ is_dir(pre, call.dst) => (call.ok /\ fs = pre)
        /\ call.ok = (\A q \in Prefixes(call.dst) : ~is_file(pre, q))
        /\ call.ok =>
            /\ call.rec = [kind |-> "MkDir", path |-> call.dst]
            /\ \A q \in Prefixes(call.dst) : is_dir(fs, q)
            /\ DOMAIN fs = DOMAIN pre \cup Prefixes(call.dst)
            /\ Kept(pre, fs, Root)
            /\ mkdir(fs, call.dir, call.name, 0).ok
            /\ mkdir(fs, call.dir, call.name, 0).fs = fs

\* mkdir named a directory that already held entries
C16_Witness ==
    /\ call.op = "mkdir"
    /\ call.ok
    /\ Entries(pre, call.dst) # {}
    /\ fs = pre

\* the paths of g that f did not have
Added(f, g) == DOMAIN g \ DOMAIN f

\* C25: a copy that fails returns Err and no record, removes nothing (what
\* it had already written under the destination stays), writes nowhere but
\* under the destination and the directories leading to it, and leaves the
\* source tree as it was.
C25_CopyNoRollback ==
    (call.op = "copy" /\ ~call.ok) =>
        /\ call.rec = NoOp
        /\ ops_hist = hpre
        /\ Kept(pre, fs, Root)
        /\ \A q \in Added(pre, fs) :
              starts_with(q, call.dst) \/ q \in Prefixes(call.dir)
        /\ Tree(fs, call.src) = Tree(pre, call.src)

\* C26: undo of the record of a mkdir that found its directory already there
\* (of a touch that found its file already there) leaves that directory with
\* everything in it (that file with its content) in place.
C26_UndoCreateKeepsOld ==
    /\ (UndoRightAfter("mkdir") /\ is_dir(prev.pre, prev.call.dst)) =>
            Kept(prev.pre, fs, prev.call.dst)
    /\ (UndoRightAfter("touch") /\ is_file(prev.pre, prev.call.dst)) =>
            Kept(prev.pre, fs, prev.call.dst)

\* the directory whose old entries copy, mv and delete_to_trash must not touch
TargetDir(c) == IF c.op = "delete" THEN trash_dir ELSE c.dir

\* C27: after copy, mv or delete_to_trash, successful or not, every entry that
\* was in the target (or trash) directory before the call, the moved source
\* apart, is there with the same name and content, and whatever is new in
\* that directory lies under the fresh destination.
C27_DestinationsCollisionSafe ==
    call.op \in {"copy", "mv", "delete"} =>
        /\ \A q \in Under(pre, TargetDir(call)) :
              (q # TargetDir(call) /\ ~starts_with(q, call.src)) =>
                  (q \in DOMAIN fs /\ fs[q] = pre[q])
        /\ \A q \in Added(pre, fs) :
              starts_with(q, TargetDir(call)) =>
                  (starts_with(q, call.dst) \/ q = TargetDir(call))
        /\ call.ok => ~exists(pre, call.dst)

\* an entry was put next to one of the same name, which kept its content
C27_Witness ==
    /\ call.op \in {"copy", "mv", "delete"}
    /\ call.ok
    /\ exists(pre, join(TargetDir(call), file_name(call.src)))
    /\ join(TargetDir(call), file_name(call.src)) # call.src
    /\ call.dst = join(TargetDir(call), file_name(call.src) \o " (1)")
    /\ fs[join(TargetDir(call), file_name(call.src))]
         = pre[join(TargetDir(call), file_name(call.src))]

(***************************************************************************)
(* clipboard.rs and the whole of paste_into / try_undo (PasteSpec)         *)
(***************************************************************************)
Clipboard_clear(c) == [items |-> <<>>, mode |-> "None", last_paste_targets |-> <<>>]
Clipboard_set(c, items, mode) ==
    [items |-> items, mode |-> mode, last_paste_targets |-> <<>>]
\* has_items that looks at the intent only
has_items_mode_only(c) == c.mode # "None"

has_items(c) == c.items # <<>> /\ c.mode # "None"

\* the filesystem PasteSpec starts from: two files named "a"
PasteFs == Base @@ (<<"a">> :> "x") @@ (<<"b">> :> "dir") @@ (<<"b", "a">> :> "y")
\* the entries a caller puts on the clipboard
ClipSources == {<<"a">>, <<"b", "a">>}
\* the directories pasted into, and the faults a paste is run under: none,
\* or the first fallible call of one item failing
PasteDirs == {Root, <<"b">>, Mount}
PasteFaults == {0, 1}
ItemVectors == UNION {[1..n -> ClipSources] : n \in 0..MaxItems}

\* the for loop of paste_into: item number i runs against the filesystem and
\* the log the items before it left; the fault k hits item number `which`
\* (r and rest are drawn from one-element sets, which computes each once)
RECURSIVE paste_items(_, _, _, _, _, _, _, _)
paste_items(f, h, items, mode, dir, k, which, i) ==
    IF items = <<>> THEN [fs |-> f, h |-> h, any_ok |-> FALSE, res |-> <<>>]
    ELSE LET item == Head(items)
             ki == IF i = which THEN k ELSE 0
             turns ==
                UNION { { [fs |-> rest.fs, h |-> rest.h, any_ok |-> r.ok \/ rest.any_ok,
                           res |-> <<[item |-> item, ok |-> r.ok, dst |-> r.dst, op |-> r.op,
                                      taken |-> exists(f, join(dir, file_name(item))),
                                      fresh |-> ~exists(f, r.dst)]>> \o rest.res] :
                          rest \in {paste_items(r.fs, IF r.ok THEN push(h, r.op) ELSE h,
                                                Tail(items), mode, dir, k, which, i + 1)} } :
                        r \in {IF mode = "Copy" THEN copy(f, item, dir, ki)
                               ELSE mv(f, item, dir, ki)} }
         IN CHOOSE t \in turns : TRUE

PasteCall(op, dir, ok) ==
    [op |-> op, src |-> Root, dir |-> dir, name |-> "", ok |-> ok,
     rec |-> NoOp, dst |-> Root, via |-> "", faulted |-> FALSE]

\* what every action of PasteSpec leaves behind for the properties: the
\* command c, the paste pc it performed, and the state it found
Ghosts(c, pc) ==
    /\ pre' = fs
    /\ hpre' = ops_hist
    /\ call' = c
    /\ pcall' = pc
    /\ UNCHANGED <<prev, pushed, evicted, popped, ret>>
    /\ SearchVarsUnchanged

ClipSet ==
    \E items \in ItemVectors, mode \in {"Copy", "Cut"} :
        /\ nops < MaxOps
        /\ clipboard' = Clipboard_set(clipboard, items, mode)
        /\ cpre' = clipboard'
        /\ Ghosts(PasteCall("set", Root, TRUE), NoPaste)
        /\ UNCHANGED <<fs, ops_hist, nops>>

ClipClear ==
    /\ nops < MaxOps
    /\ clipboard' = Clipboard_clear(clipboard)
    /\ cpre' = clipboard'
    /\ Ghosts(PasteCall("clear", Root, TRUE), NoPaste)
    /\ UNCHANGED <<fs, ops_hist, nops>>

\* paste_into that clears the clipboard whatever the mode and the outcome
PasteInto_clear_always ==
    \E dir \in PasteDirs, k \in PasteFaults, which \in 1..MaxItems :
        IF ~has_items(clipboard)
        THEN /\ cpre' = clipboard
             /\ Ghosts(PasteCall("paste_skipped", dir, FALSE), NoPaste)
             /\ UNCHANGED <<fs, ops_hist, nops, clipboard>>
        ELSE \E r \in {paste_items(fs, ops_hist, clipboard.items, clipboard.mode,
                                    dir, k, which, 1)} :
                /\ nops < MaxOps
                /\ nops' = nops + 1
                /\ fs' = r.fs
                /\ ops_hist' = r.h
                /\ clipboard' = Clipboard_clear(clipboard)
                /\ cpre' = clipboard
                /\ Ghosts(PasteCall("paste", dir, r.any_ok),
                          [mode |-> clipboard.mode, items |-> clipboard.items,
                           any_ok |-> r.any_ok, res |-> r.res])

PasteInto ==
    \E dir \in PasteDirs, k \in PasteFaults, which \in 1..MaxItems :
        IF ~has_items(clipboard)
        THEN /\ cpre' = clipboard
             /\ Ghosts(PasteCall("paste_skipped", dir, FALSE), NoPaste)
             /\ UNCHANGED <<fs, ops_hist, nops, clipboard>>
        ELSE \E r \in {paste_items(fs, ops_hist, clipboard.items, clipboard.mode,
                                    dir, k, which, 1)} :
                /\ nops < MaxOps
                /\ nops' = nops + 1
                /\ fs' = r.fs
                /\ ops_hist' = r.h
                /\ clipboard' = IF r.any_ok /\ clipboard.mode = "Cut"
                                THEN Clipboard_clear(clipboard) ELSE clipboard
                /\ cpre' = clipboard
                /\ Ghosts(PasteCall("paste", dir, r.any_ok),
                          [mode |-> clipboard.mode, items |-> clipboard.items,
                           any_ok |-> r.any_ok, res |-> r.res])

\* try_undo that puts the record back when its inverse failed
PasteUndo_reinsert ==
    \E k \in Faults :
        LET p == pop_undo(ops_hist)
            r == undo(fs, p.op, k)
        IN IF ~p.some
           THEN /\ cpre' = clipboard
                /\ Ghosts(PasteCall("undo_empty", Root, FALSE), NoPaste)
                /\ UNCHANGED <<fs, ops_hist, nops, clipboard>>
           ELSE /\ ops_hist' = IF r.ok THEN p.h ELSE push(p.h, p.op)
                /\ fs' = r.fs
                /\ cpre' = clipboard
                /\ Ghosts(Call("undo", UndoSource(p.op), Root, "", r, p.op), NoPaste)
                /\ UNCHANGED <<nops, clipboard>>

\* try_undo, the empty log included
PasteUndo ==
    \E k \in Faults :
        LET p == pop_undo(ops_hist)
            r == undo(fs, p.op, k)
        IN IF ~p.some
           THEN /\ cpre' = clipboard
                /\ Ghosts(PasteCall("undo_empty", Root, FALSE), NoPaste)
                /\ UNCHANGED <<fs, ops_hist, nops, clipboard>>
           ELSE /\ ops_hist' = p.h
                /\ fs' = r.fs
                /\ cpre' = clipboard
                /\ Ghosts(Call("undo", UndoSource(p.op), Root, "", r, p.op), NoPaste)
                /\ UNCHANGED <<nops, clipboard>>

PasteInit ==
    /\ fs = PasteFs
    /\ ops_hist = OpsHistory_new(HistCapacity)
    /\ pre = fs
    /\ call = NoCall
    /\ prev = [call |-> NoCall, pre |-> fs]
    /\ nops = 0
    /\ pushed = 0
    /\ evicted = {}
    /\ popped = <<>>
    /\ ret = [op |-> "none", some |-> FALSE, val |-> 0]
    /\ hpre = ops_hist
    /\ clipboard = Clipboard_default
    /\ cpre = clipboard
    /\ pcall = NoPaste
    /\ SearchIdle
    /\ NavIdle

PasteNext ==
    \/ ClipSet
    \/ ClipClear
    \/ PasteInto
    \/ PasteUndo

PasteSpec == PasteInit /\ [][PasteNext]_vars

(***************************************************************************)
(* Properties of the clipboard, paste and undo commands                    *)
(***************************************************************************)
\* C11: an undo command on a non-empty log removes exactly the newest record,
\* whether or not the inverse succeeded (a failed inverse is reported as Err
\* and the record is not put back, the records below stay as they were); on
\* an empty log it changes nothing.
C11_UndoOneShot ==
    /\ call.op = "undo" =>
        /\ hpre.undo # <<>>
        /\ call.rec = hpre.undo[Len(hpre.undo)]
        /\ ops_hist = [hpre EXCEPT !.undo = SubSeq(hpre.undo, 1, Len(hpre.undo) - 1)]
        /\ clipboard = cpre
    /\ call.op = "undo_empty" =>
        /\ hpre.undo = <<>>
        /\ ops_hist = hpre
        /\ fs = pre
        /\ clipboard = cpre

\* an undo failed with a record still below the one it took
C11_Witness ==
    /\ call.op = "undo"
    /\ ~call.ok
    /\ Len(hpre.undo) = 2
    /\ Len(ops_hist.undo) = 1

\* C14: within one paste, two items of the same name n that both went into a
\* directory where n was taken got distinct destinations that did not exist
\* when they were chosen, numbered "n (ki)" and "n (kj)" with 1 <= ki < kj.
C14_SuffixesIncrease ==
    call.op = "paste" =>
        \A i \in 1..Len(pcall.res), j \in 1..Len(pcall.res) :
            LET a == pcall.res[i]
                b == pcall.res[j]
                n == file_name(a.item)
            IN (i < j /\ a.ok /\ b.ok /\ a.taken /\ b.taken /\ file_name(b.item) = n) =>
                /\ a.dst # b.dst
                /\ a.fresh /\ b.fresh
                /\ ~exists(pre, a.dst) /\ ~exists(pre, b.dst)
                /\ \E ki \in 1..Cardinality(DOMAIN fs), kj \in 1..Cardinality(DOMAIN fs) :
                    /\ ki < kj
                    /\ a.dst = join(call.dir, n \o " (" \o ToString(ki) \o ")")
                    /\ b.dst = join(call.dir, n \o " (" \o ToString(kj) \o ")")

\* every item of a full clipboard collided and was copied: (1), (2), ...
C14_Witness ==
    /\ call.op = "paste"
    /\ Len(pcall.res) = MaxItems
    /\ \A i \in 1..Len(pcall.res) :
        /\ pcall.res[i].ok
        /\ pcall.res[i].taken
        /\ pcall.res[i].dst = join(call.dir, "a (" \o ToString(i) \o ")")

\* C17: in every state reached by set, clear and paste, the clipboard's mode is
\* present exactly when its item vector is not empty.
C17_ModeIffItems == (clipboard.mode # "None") <=> (clipboard.items # <<>>)

\* C18: a paste in which some item succeeded clears a Cut clipboard (has_items
\* is then false, so the next paste is skipped) and leaves a Copy clipboard as
\* it was, still pasteable; a paste in which every item failed leaves the
\* clipboard as it was; a skipped paste changes nothing.
C18_CutClearsCopyPersists ==
    /\ call.op = "paste" =>
        /\ has_items(cpre)
        /\ pcall.mode = cpre.mode /\ pcall.items = cpre.items
        /\ pcall.any_ok = (\E i \in 1..Len(pcall.res) : pcall.res[i].ok)
        /\ (pcall.any_ok /\ pcall.mode = "Cut") =>
            /\ clipboard.items = <<>>
            /\ clipboard.mode = "None"
            /\ ~has_items(clipboard)
        /\ (pcall.any_ok /\ pcall.mode = "Copy") =>
            /\ clipboard = cpre
            /\ has_items(clipboard)
        /\ ~pcall.any_ok => clipboard = cpre
    /\ call.op = "paste_skipped" =>
        /\ ~has_items(cpre)
        /\ clipboard = cpre /\ fs = pre /\ ops_hist = hpre

\* a Cut paste moved one item and failed on another, and emptied the clipboard
C18_Witness ==
    /\ call.op = "paste"
    /\ pcall.mode = "Cut"
    /\ \E i \in 1..Len(pcall.res) : pcall.res[i].ok
    /\ \E i \in 1..Len(pcall.res) : ~pcall.res[i].ok
    /\ ~has_items(clipboard)

(***************************************************************************)
(* OpsHistory on its own: any capacity, any interleaving of push and       *)
(* pop_undo.  The records pushed are numbered 1, 2, ... in push order.     *)
(* pushed counts the pushes, evicted is the set of records push dropped,   *)
(* popped lists what pop_undo returned (val) and how many records had been *)
(* pushed by then (at), ret is the last call, hpre the log before it.      *)
(***************************************************************************)
Range(q) == {q[i] : i \in 1..Len(q)}

HistInit ==
    /\ ops_hist \in {OpsHistory_new(cap) : cap \in 0..MaxCap} \cup {OpsHistory_default}
    /\ fs = Base
    /\ pre = fs
    /\ call = NoCall
    /\ prev = [call |-> NoCall, pre |-> fs]
    /\ nops = 0
    /\ pushed = 0
    /\ evicted = {}
    /\ popped = <<>>
    /\ ret = [op |-> "none", some |-> FALSE, val |-> 0]
    /\ hpre = ops_hist
    /\ clipboard = Clipboard_default
    /\ cpre = clipboard
    /\ pcall = NoPaste
    /\ SearchIdle
    /\ NavIdle

FsVarsUnchanged ==
    UNCHANGED <<fs, pre, call, prev, nops>> /\ ClipVarsUnchanged /\ SearchVarsUnchanged

HistPush ==
    /\ pushed < MaxPush
    /\ pushed' = pushed + 1
    /\ ops_hist' = push(ops_hist, pushed + 1)
    /\ evicted' = evicted \cup (Range(ops_hist.undo) \ Range(ops_hist'.undo))
    /\ ret' = [op |-> "push", some |-> FALSE, val |-> pushed + 1]
    /\ hpre' = ops_hist
    /\ UNCHANGED popped
    /\ FsVarsUnchanged

HistPop ==
    LET r == pop_undo(ops_hist)
    IN /\ ops_hist' = r.h
       /\ popped' = IF r.some THEN Append(popped, [val |-> r.op, at |-> pushed]) ELSE popped
       /\ ret' = [op |-> "pop", some |-> r.some, val |-> IF r.some THEN r.op ELSE 0]
       /\ hpre' = ops_hist
       /\ UNCHANGED <<pushed, evicted>>
       /\ FsVarsUnchanged

HistNext == HistPush \/ HistPop

HistSpec == HistInit /\ [][HistNext]_vars

\* C8: the number of stored records never exceeds the capacity, for every
\* capacity the log is constructed with (new(cap), cap >= 0, and default()).
C8_LenWithinCapacity == Len(ops_hist.undo) <= ops_hist.capacity

\* the behaviour pushed first and popped afterwards, until the log was empty
PushedThenDrained ==
    /\ ret.op = "pop"
    /\ ops_hist.undo = <<>>
    /\ \A i \in 1..Len(popped) : popped[i].at = pushed

\* C9: after capacity + k pushes (k >= 1) into an empty log, popping until
\* empty returns exactly the last `capacity` records, newest first, and none
\* of the k oldest.
C9_FifoEvictLifoPop ==
    (PushedThenDrained /\ pushed > ops_hist.capacity) =>
        /\ Len(popped) = ops_hist.capacity
        /\ \A i \in 1..Len(popped) : popped[i].val = pushed + 1 - i

\* the records pushed so far that pop_undo has not returned and push has not
\* dropped, as of the state before the last call
LiveBefore ==
    LET before == IF ret.op = "pop" /\ ret.some THEN SubSeq(popped, 1, Len(popped) - 1)
                  ELSE popped
    IN (1..pushed) \ (evicted \cup {before[i].val : i \in 1..Len(before)})

\* C10: pop_undo returns the most recently pushed record that was neither
\* popped nor evicted; on an empty log it returns None and changes nothing;
\* so no record is returned twice, and none after its eviction.
C10_PopMostRecentLive ==
    /\ ret.op = "pop" =>
        /\ ret.some = (hpre.undo # <<>>)
        /\ ret.some => (ret.val \in LiveBefore /\ \A n \in LiveBefore : n <= ret.val)
        /\ ~ret.some => (ops_hist = hpre /\ LiveBefore = {})
    /\ \A i, j \in 1..Len(popped) : popped[i].val = popped[j].val => i = j
    /\ \A i \in 1..Len(popped) : popped[i].val \notin evicted

\* a pop returned a record although newer ones had been popped before it and
\* older ones evicted
C10_Witness ==
    /\ ret.op = "pop"
    /\ ret.some
    /\ evicted # {}
    /\ \E i \in 1..Len(popped) : popped[i].val > ret.val
    /\ ops_hist.undo # <<>>

\* C32: has_items is true exactly of a clipboard with at least one item and
\* an intent.  A paste command that finds it false runs no filesystem
\* operation and leaves the log and the clipboard as they were; a paste that
\* gets past the gate has an intent to unwrap and items to loop over.
C32_HasItemsGatesPaste ==
    /\ has_items(clipboard) = (Len(clipboard.items) >= 1 /\ clipboard.mode \in {"Copy", "Cut"})
    /\ call.op = "paste_skipped" =>
         /\ cpre.items = <<>> \/ cpre.mode = "None"
         /\ fs = pre
         /\ ops_hist = hpre
         /\ clipboard = cpre
    /\ call.op = "paste" =>
         /\ cpre.mode \in {"Copy", "Cut"}
         /\ cpre.items # <<>>
         /\ pcall.mode = cpre.mode
         /\ Len(pcall.res) = Len(cpre.items)

\* a paste command found an intent on the clipboard but no item, and did
\* nothing
C32_Witness ==
    /\ call.op = "paste_skipped"
    /\ cpre.items = <<>>
    /\ cpre.mode = "Cut"
    /\ fs = pre
    /\ clipboard = cpre

(***************************************************************************)
(* NavHistory (history.rs) and the navigation commands of main.rs          *)
(* (NavSpec).  nav_call describes the last command: what it was, what the  *)
(* NavHistory call returned, whether navigate_to pushed, the state it      *)
(* found (pre), and the same of the command before it (before).            *)
(***************************************************************************)
\* navigation commands issued in one behaviour
MaxNav == 5

\* push that leaves the forward stack in place
NavHistory_push_keep_forward(h, cur) == [h EXCEPT !.back = Append(@, cur)]

NavHistory_push(h, cur) == [back |-> Append(h.back, cur), forward |-> <<>>]

\* back that forgets the path it leaves
NavHistory_back_forgetful(h, cur) ==
    IF h.back # <<>>
    THEN [h |-> [h EXCEPT !.back = SubSeq(@, 1, Len(@) - 1)],
          cur |-> h.back[Len(h.back)], ret |-> TRUE]
    ELSE [h |-> h, cur |-> cur, ret |-> FALSE]

NavHistory_back(h, cur) ==
    IF h.back # <<>>
    THEN [h |-> [back |-> SubSeq(h.back, 1, Len(h.back) - 1),
                 forward |-> Append(h.forward, cur)],
          cur |-> h.back[Len(h.back)], ret |-> TRUE]
    ELSE [h |-> h, cur |-> cur, ret |-> FALSE]

NavHistory_forward(h, cur) ==
    IF h.forward # <<>>
    THEN [h |-> [back |-> Append(h.back, cur),
                 forward |-> SubSeq(h.forward, 1, Len(h.forward) - 1)],
          cur |-> h.forward[Len(h.forward)], ret |-> TRUE]
    ELSE [h |-> h, cur |-> cur, ret |-> FALSE]

can_back(h) == h.back # <<>>
can_forward(h) == h.forward # <<>>

\* the tree the browser moves in, and what navigate_to is handed: the
\* directories, a file, and a path that does not exist
NavFs == PasteFs
NavTargets == {Root, <<"b">>, Mount, <<"a">>, NewDir}

\* navigate_to: [h, cur, ret, pushed]; ret is whether the path was accepted
navigate_to(f, h, cur, new_path) ==
    IF exists(f, new_path) /\ is_dir(f, new_path)
    THEN [h |-> IF new_path # cur THEN NavHistory_push(h, cur) ELSE h,
          cur |-> new_path, ret |-> TRUE, pushed |-> new_path # cur]
    ELSE [h |-> h, cur |-> cur, ret |-> FALSE, pushed |-> FALSE]

\* a navigation command that gave r
NavCommand(op, r, pushed_cur) ==
    /\ nops < MaxNav
    /\ nav_hist' = r.h
    /\ current_path' = r.cur
    /\ nav_call' = [op |-> op, ret |-> r.ret, pushed |-> pushed_cur,
                    pre |-> [h |-> nav_hist, cur |-> current_path],
                    before |-> [op |-> nav_call.op, ret |-> nav_call.ret,
                                pushed |-> nav_call.pushed, pre |-> nav_call.pre]]
    /\ UNCHANGED <<fs, ops_hist, pre, call, prev, pushed, evicted, popped, ret, hpre>>
    /\ nops' = nops + 1
    /\ ClipVarsUnchanged
    /\ UNCHANGED <<search_query, denied, scan, abort, rx, view_mode, old_scan, old_abort, job>>

NavigateTo ==
    \E new_path \in NavTargets :
        \E r \in {navigate_to(fs, nav_hist, current_path, new_path)} :
            NavCommand("navigate_to", r, r.pushed)

\* AppData::back
Back ==
    \E r \in {NavHistory_back(nav_hist, current_path)} : NavCommand("back", r, FALSE)

\* AppData::forward
Forward ==
    \E r \in {NavHistory_forward(nav_hist, current_path)} : NavCommand("forward", r, FALSE)

NavInit ==
    /\ fs = NavFs
    /\ ops_hist = OpsHistory_new(HistCapacity)
    /\ pre = fs
    /\ call = NoCall
    /\ prev = [call |-> NoCall, pre |-> fs]
    /\ nops = 0
    /\ pushed = 0
    /\ evicted = {}
    /\ popped = <<>>
    /\ ret = [op |-> "none", some |-> FALSE, val |-> 0]
    /\ hpre = ops_hist
    /\ clipboard = Clipboard_default
    /\ cpre = clipboard
    /\ pcall = NoPaste
    /\ SearchIdle
    /\ nav_hist = NavHistory_default
    /\ current_path \in {Root, <<"b">>}
    /\ nav_call = [NoNav EXCEPT !.pre.cur = current_path] @@ [before |-> NoNav]
    /\ job = NoJob

NavNext == NavigateTo \/ Back \/ Forward

NavSpec == NavInit /\ [][NavNext]_vars

\* the paths a browser state holds: both stacks and the current one
Held(st) == Len(st.h.back) + Len(st.h.forward) + 1
NavNow == [h |-> nav_hist, cur |-> current_path]

\* C33: forward() right after a back() that returned true gives back the
\* current path and both stacks as they were before the back(), and back()
\* right after a forward() that returned true likewise; neither call, true or
\* false, changes how many paths are held.
C33_BackForwardRoundTrip ==
    /\ (nav_call.op = "forward" /\ nav_call.before.op = "back" /\ nav_call.before.ret) =>
          (nav_call.ret /\ NavNow = nav_call.before.pre)
    /\ (nav_call.op = "back" /\ nav_call.before.op = "forward" /\ nav_call.before.ret) =>
          (nav_call.ret /\ NavNow = nav_call.before.pre)
    /\ nav_call.op \in {"back", "forward"} => Held(NavNow) = Held(nav_call.pre)

\* back() from a state with paths on both stacks, then forward(): the state
\* is that one again
C33_Witness ==
    /\ nav_call.op = "forward"
    /\ nav_call.before.op = "back"
    /\ nav_call.before.ret
    /\ nav_call.before.pre.h.forward # <<>>
    /\ Len(nav_call.before.pre.h.back) >= 1
    /\ NavNow = nav_call.before.pre
    /\ NavNow # nav_call.pre

\* C34: a navigate_to that pushed leaves the forward stack empty:
\* can_forward() is false, and a forward() right after it returns false and
\* changes nothing.  forward() returns false exactly on an empty forward
\* stack and back() exactly on an empty back stack, and a call that returned
\* false left the current path and both stacks as they were.
C34_PushClearsForward ==
    /\ (nav_call.op = "navigate_to" /\ nav_call.pushed) =>
          /\ nav_hist.forward = <<>>
          /\ ~can_forward(nav_hist)
          /\ nav_hist.back = Append(nav_call.pre.h.back, nav_call.pre.cur)
    /\ (nav_call.op = "forward" /\ nav_call.before.op = "navigate_to" /\ nav_call.before.pushed) =>
          (~nav_call.ret /\ NavNow = nav_call.pre)
    /\ nav_call.op = "forward" => (nav_call.ret = (nav_call.pre.h.forward # <<>>))
    /\ nav_call.op = "back" => (nav_call.ret = (nav_call.pre.h.back # <<>>))
    /\ (nav_call.op \in {"back", "forward"} /\ ~nav_call.ret) => NavNow = nav_call.pre

\* a navigate_to made from a state that could go forward pushed, and the
\* forward() after it returned false
C34_Witness ==
    /\ nav_call.op = "forward"
    /\ ~nav_call.ret
    /\ nav_call.before.op = "navigate_to"
    /\ nav_call.before.pushed
    /\ nav_call.before.pre.h.forward # <<>>
    /\ NavNow = nav_call.pre

(***************************************************************************)
(* searcher.rs and the search session of main.rs (SearchSpec).  File names *)
(* are sequences of characters, so that to_lowercase and contains work on  *)
(* them as they do on a String.                                            *)
(***************************************************************************)
SearchFs ==
    (Root :> "dir")
    @@ (<< <<"a">> >> :> "dir")
    @@ (<< <<"a">>, <<"f", "o", "x">> >> :> "x")
    @@ (<< <<"a">>, <<"f", "o">> >> :> "dir")
    @@ (<< <<"a">>, <<"f", "o">>, <<"b", "a">> >> :> "y")
    @@ (<< <<"a">>, <<"f", "o">>, <<"F", "O">> >> :> "z")
Queries == {<<"f", "o">>, <<"F", "o">>, <<"o", "x">>, <<>>}
\* the directories read_dir fails on
DeniedSets == {{}, {<< <<"a">>, <<"f", "o">> >>}, {Root}}

\* char::to_lowercase on the characters in use
Lower(c) ==
    CASE c = "F" -> "f"
      [] c = "O" -> "o"
      [] OTHER -> c
to_lowercase(str) == [i \in 1..Len(str) |-> Lower(str[i])]
\* str::contains: the needle occurs at some offset of the haystack
contains(hay, needle) ==
    \E i \in 0..(Len(hay) - Len(needle)) : SubSeq(hay, i + 1, i + Len(needle)) = needle

\* the test of searcher.rs line 61, on the file name only and case-sensitive
Matches_case_sensitive(path, query) == contains(file_name(path), query)

\* the test of searcher.rs line 61
Matches(path, query) ==
    contains(to_lowercase(file_name(path)), to_lowercase(query))

ProgressMsg(sc, done) ==
    [scanned_files |-> sc.files, scanned_dirs |-> sc.dirs, done |-> done]
Top(sc) == sc.stack[Len(sc.stack)]
\* `return` from the innermost walk: back in the caller's for loop, or, from
\* the outermost walk, at the final send
Return(sc) ==
    LET stk == SubSeq(sc.stack, 1, Len(sc.stack) - 1)
    IN [sc EXCEPT !.stack = stk, !.pc = IF stk = <<>> THEN "final" ELSE "loop"]

\* A step of the thread gives [scan, res, prog]: its new local state and the
\* messages it hands to tx_results and tx_prog.  `sent` is the thread's own
\* record of every send in order: what it was about, and whether the flag was
\* set (after) and had been read as set (saw) at that moment.
Quiet(sc) == [scan |-> sc, res |-> <<>>, prog |-> <<>>]
Note(sc, kind, path, done, flag) ==
    [kind |-> kind, path |-> path, files |-> sc.files, dirs |-> sc.dirs,
     done |-> done, after |-> flag, saw |-> sc.saw]
SendProgress(sc, path, done, flag) ==
    [scan |-> [sc EXCEPT !.sent_prog = Append(@, ProgressMsg(sc, done)),
                         !.sent = Append(@, Note(sc, "prog", path, done, flag))],
     res |-> <<>>,
     prog |-> <<ProgressMsg(sc, done)>>]
SendResult(sc, path, flag) ==
    [scan |-> [sc EXCEPT !.sent_res = Append(@, path),
                         !.sent = Append(@, Note(sc, "res", path, FALSE, flag))],
     res |-> <<path>>,
     prog |-> <<>>]
\* abort.load(): what the thread remembers of the flag it read
Loaded(sc, flag) ==
    [sc EXCEPT !.saw = @ \/ flag,
               !.first_check = IF @ # "none" THEN @ ELSE IF flag THEN "set" ELSE "clear"]

\* walk that reads the directory without looking at the flag first
walk_abort_check_skipped(sc, flag) == Quiet([sc EXCEPT !.pc = "read"])

\* line 38: the abort check on entering walk
walk_abort_check(sc, flag) ==
    Quiet(IF flag THEN Return(Loaded(sc, flag)) ELSE [Loaded(sc, flag) EXCEPT !.pc = "read"])

\* walk whose unreadable directory ends the whole scan
walk_read_dir_fatal(sc, f, den, flag) ==
    IF Top(sc).dir \in den \/ ~is_dir(f, Top(sc).dir)
    THEN Quiet([sc EXCEPT !.stack = <<>>, !.pc = "final"])
    ELSE SendProgress([sc EXCEPT !.dirs = @ + 1,
                                 !.entered = @ \cup {Top(sc).dir},
                                 !.stack[Len(sc.stack)].rest = read_dir(f, Top(sc).dir),
                                 !.pc = "loop"],
                      Top(sc).dir, FALSE, flag)

\* lines 41-50: read_dir, count the directory, send progress
walk_read_dir(sc, f, den, flag) ==
    IF Top(sc).dir \in den \/ ~is_dir(f, Top(sc).dir)
    THEN Quiet(Return(sc))
    ELSE SendProgress([sc EXCEPT !.dirs = @ + 1,
                                 !.entered = @ \cup {Top(sc).dir},
                                 !.stack[Len(sc.stack)].rest = read_dir(f, Top(sc).dir),
                                 !.pc = "loop"],
                      Top(sc).dir, FALSE, flag)

\* the for loop without its abort check
walk_next_entry_unchecked(sc, flag) ==
    IF Top(sc).rest = <<>> THEN Quiet(Return(sc))
    ELSE Quiet([sc EXCEPT !.pc = "entry"])

\* lines 51-54: the next entry of the for loop and its abort check
walk_next_entry(sc, flag) ==
    IF Top(sc).rest = <<>> THEN Quiet(Return(sc))
    ELSE IF flag THEN Quiet(Return(Loaded(sc, flag)))
    ELSE Quiet([Loaded(sc, flag) EXCEPT !.pc = "entry"])

\* walk that sends a file's progress where it counts the file, ahead of any
\* result
walk_entry_progress_first(sc, f, query, flag) ==
    IF is_dir(f, Head(Top(sc).rest))
    THEN Quiet([sc EXCEPT !.stack = Append([sc.stack EXCEPT ![Len(sc.stack)].rest = Tail(@)],
                                          [dir |-> Head(Top(sc).rest), rest |-> <<>>]),
                          !.pc = "walk"])
    ELSE SendProgress([sc EXCEPT !.files = @ + 1,
                                 !.visited = @ \cup {Head(Top(sc).rest)},
                                 !.pc = "prog"],
                      Head(Top(sc).rest), FALSE, flag)

\* lines 55-64: a directory is walked into, a file is counted and, if its
\* name matches, sent as a result
walk_entry(sc, f, query, flag) ==
    IF is_dir(f, Head(Top(sc).rest))
    THEN Quiet([sc EXCEPT !.stack = Append([sc.stack EXCEPT ![Len(sc.stack)].rest = Tail(@)],
                                          [dir |-> Head(Top(sc).rest), rest |-> <<>>]),
                          !.pc = "walk"])
    ELSE IF Matches(Head(Top(sc).rest), query)
    THEN SendResult([sc EXCEPT !.files = @ + 1,
                               !.visited = @ \cup {Head(Top(sc).rest)},
                               !.pc = "prog"],
                    Head(Top(sc).rest), flag)
    ELSE Quiet([sc EXCEPT !.files = @ + 1,
                          !.visited = @ \cup {Head(Top(sc).rest)},
                          !.pc = "prog"])

\* lines 65-69: progress after a file; the loop moves on to the next entry
walk_file_progress(sc, flag) ==
    SendProgress([sc EXCEPT !.stack[Len(sc.stack)].rest = Tail(@), !.pc = "loop"],
                 Head(Top(sc).rest), FALSE, flag)

\* lines 75-79: the done:true message, then the thread ends
thread_final(sc, flag) == SendProgress([sc EXCEPT !.pc = "exit"], Root, TRUE, flag)

\* the step a thread takes from where it stands
thread_step(sc, f, den, query, flag) ==
    CASE sc.pc = "walk" -> walk_abort_check(sc, flag)
      [] sc.pc = "read" -> walk_read_dir(sc, f, den, flag)
      [] sc.pc = "loop" -> walk_next_entry(sc, flag)
      [] sc.pc = "entry" -> walk_entry(sc, f, query, flag)
      [] sc.pc = "prog" -> walk_file_progress(sc, flag)
      [] sc.pc = "final" -> thread_final(sc, flag)

\* what a step of a search thread leaves alone
ThreadFrame ==
    /\ UNCHANGED <<fs, ops_hist, pre, call, prev, nops, pushed, evicted, popped, ret, hpre>>
    /\ ClipVarsUnchanged
    /\ UNCHANGED <<search_query, denied, abort, view_mode, old_abort>>
    /\ NavVarsUnchanged
\* what a step of the foreground leaves alone
ViewFrame ==
    /\ UNCHANGED <<fs, ops_hist, pre, call, prev, nops, pushed, evicted, popped, ret, hpre>>
    /\ ClipVarsUnchanged
    /\ UNCHANGED <<search_query, denied>>
    /\ NavVarsUnchanged

\* Sender::send: queued while the receiver lives, an ignored Err once it is dropped
Deliver(r) ==
    /\ scan' = r.scan
    /\ rx' = IF rx.alive THEN [rx EXCEPT !.res = @ \o r.res, !.prog = @ \o r.prog] ELSE rx
    /\ UNCHANGED old_scan
    /\ ThreadFrame

\* the steps of the thread of the newest search
WalkAbortCheck == scan.pc = "walk" /\ Deliver(walk_abort_check(scan, abort))

WalkReadDir == scan.pc = "read" /\ Deliver(walk_read_dir(scan, fs, denied, abort))

WalkNextEntry == scan.pc = "loop" /\ Deliver(walk_next_entry(scan, abort))

WalkEntry == scan.pc = "entry" /\ Deliver(walk_entry(scan, fs, search_query, abort))

WalkFileProgress == scan.pc = "prog" /\ Deliver(walk_file_progress(scan, abort))

\* the thread closure that ends without its last send
ThreadFinal_silent == scan.pc = "final" /\ Deliver(Quiet([scan EXCEPT !.pc = "exit"]))

ThreadFinal == scan.pc = "final" /\ Deliver(thread_final(scan, abort))

\* a step of the thread of the search before, whose receivers are gone
OrphanStep ==
    /\ old_scan.pc \notin {"none", "exit"}
    /\ old_scan' = thread_step(old_scan, fs, denied, search_query, old_abort).scan
    /\ UNCHANGED <<scan, rx>>
    /\ ThreadFrame

\* cancel_search that reaches every flag ever handed out
cancel_search_all ==
    /\ view_mode.kind = "Searching"
    /\ ~view_mode.polling
    /\ abort' = TRUE
    /\ old_abort' = TRUE
    /\ view_mode' = [kind |-> "Browsing", results |-> <<>>, scanned_files |-> 0,
                     scanned_dirs |-> 0, done |-> FALSE, polling |-> FALSE]
    /\ rx' = [alive |-> FALSE, res |-> <<>>, prog |-> <<>>]
    /\ UNCHANGED <<scan, old_scan>>
    /\ ViewFrame

\* cancel_search: set the flag of the session on display, drop the session and
\* with it the receivers
cancel_search ==
    /\ view_mode.kind = "Searching"
    /\ ~view_mode.polling
    /\ abort' = TRUE
    /\ view_mode' = Browsing
    /\ rx' = NoRx
    /\ UNCHANGED <<scan, old_scan, old_abort>>
    /\ ViewFrame

\* start_search: fresh channels and a fresh flag, a thread spawned on
\* current_path, the view switched to Searching.  The receivers of the
\* session before are dropped with it; its thread, if still running, goes on
\* with the flag it was given.  (One earlier thread is followed.)
start_search ==
    /\ ~view_mode.polling
    /\ scan.pc \in {"none", "exit"} \/ old_scan.pc \in {"none", "exit"}
    /\ old_scan' = IF scan.pc \in {"none", "exit"} THEN old_scan ELSE scan
    /\ old_abort' = IF scan.pc \in {"none", "exit"} THEN old_abort ELSE abort
    /\ scan' = [NoScan EXCEPT !.pc = "walk", !.stack = <<[dir |-> Root, rest |-> <<>>]>>]
    /\ abort' = FALSE
    /\ rx' = [alive |-> TRUE, res |-> <<>>, prog |-> <<>>]
    /\ view_mode' = [Browsing EXCEPT !.kind = "Searching"]
    /\ ViewFrame

\* a poll that waits on the result channel with recv
PollResults_recv ==
    /\ view_mode.kind = "Searching"
    /\ ~view_mode.polling
    /\ rx.res # <<>>
    /\ view_mode' = [view_mode EXCEPT !.results = @ \o rx.res, !.polling = TRUE]
    /\ rx' = [rx EXCEPT !.res = <<>>]
    /\ UNCHANGED <<scan, abort, old_scan, old_abort>>
    /\ ViewFrame

\* main.rs line 418: drain the result channel
PollResults ==
    /\ view_mode.kind = "Searching"
    /\ ~view_mode.polling
    /\ view_mode' = [view_mode EXCEPT !.results = @ \o rx.res, !.polling = TRUE]
    /\ rx' = [rx EXCEPT !.res = <<>>]
    /\ UNCHANGED <<scan, abort, old_scan, old_abort>>
    /\ ViewFrame

\* main.rs lines 421-427: drain the progress channel
PollProgress ==
    /\ view_mode.kind = "Searching"
    /\ view_mode.polling
    /\ LET n == Len(rx.prog)
       IN view_mode' =
            [view_mode EXCEPT
                !.scanned_files = IF n = 0 THEN @ ELSE rx.prog[n].scanned_files,
                !.scanned_dirs = IF n = 0 THEN @ ELSE rx.prog[n].scanned_dirs,
                !.done = @ \/ \E i \in 1..n : rx.prog[i].done,
                !.polling = FALSE]
    /\ rx' = [rx EXCEPT !.prog = <<>>]
    /\ UNCHANGED <<scan, abort, old_scan, old_abort>>
    /\ ViewFrame

\* main.rs lines 466-471: a result is clicked; the session and its receivers
\* are dropped, the flag is not set
OpenResult ==
    /\ view_mode.kind = "Searching"
    /\ ~view_mode.polling
    /\ view_mode.results # <<>>
    /\ view_mode' = Browsing
    /\ rx' = NoRx
    /\ UNCHANGED <<scan, abort, old_scan, old_abort>>
    /\ ViewFrame

SearchInit ==
    /\ fs = SearchFs
    /\ ops_hist = OpsHistory_new(HistCapacity)
    /\ pre = fs
    /\ call = NoCall
    /\ prev = [call |-> NoCall, pre |-> fs]
    /\ nops = 0
    /\ pushed = 0
    /\ evicted = {}
    /\ popped = <<>>
    /\ ret = [op |-> "none", some |-> FALSE, val |-> 0]
    /\ hpre = ops_hist
    /\ clipboard = Clipboard_default
    /\ cpre = clipboard
    /\ pcall = NoPaste
    /\ search_query \in Queries
    /\ denied \in DeniedSets
    /\ scan = NoScan
    /\ abort = FALSE
    /\ rx = NoRx
    /\ view_mode = Browsing
    /\ old_scan = NoScan
    /\ old_abort = FALSE
    /\ NavIdle

SearchNext ==
    \/ start_search
    \/ WalkAbortCheck
    \/ WalkReadDir
    \/ WalkNextEntry
    \/ WalkEntry
    \/ WalkFileProgress
    \/ ThreadFinal
    \/ OrphanStep
    \/ PollResults
    \/ PollProgress
    \/ cancel_search
    \/ OpenResult

SearchSpec == SearchInit /\ [][SearchNext]_vars

(***************************************************************************)
(* Properties of the search                                                *)
(***************************************************************************)
\* a thread that was spawned and has not ended
Running(sc) == sc.pc \notin {"none", "exit"}

\* name has the query in it when both are read without regard to case
NameHas(name, query) ==
    \E i \in 0..(Len(name) - Len(query)) :
        \A j \in 1..Len(query) : Lower(name[i + j]) = Lower(query[j])

\* C19: a search that was not cancelled, over a tree every directory of which
\* can be read, has at its end sent exactly the files under the root whose own
\* name contains the query case-insensitively, each once, with its full path.
C19_ResultsExact ==
    (scan.pc = "exit" /\ ~abort /\ denied = {}) =>
        /\ {scan.sent_res[i] : i \in 1..Len(scan.sent_res)} =
             {p \in DOMAIN fs : fs[p] # "dir" /\ NameHas(p[Len(p)], search_query)}
        /\ \A i \in 1..Len(scan.sent_res), j \in 1..Len(scan.sent_res) :
             scan.sent_res[i] = scan.sent_res[j] => i = j

\* the query "Fo" found fox and FO, and neither ba nor the directory fo
C19_Witness ==
    /\ scan.pc = "exit"
    /\ ~abort
    /\ denied = {}
    /\ search_query = <<"F", "o">>
    /\ Len(scan.sent_res) = 2

\* C20: a scan sends done:true exactly once, as the last progress message it
\* sends, cancelled or not and with the receivers alive or dropped; the
\* message carries the number of directories entered and of files visited.
C20_OneFinalDone ==
    LET sp == scan.sent_prog
        dones == {i \in 1..Len(sp) : sp[i].done}
    IN /\ scan.pc # "exit" => dones = {}
       /\ scan.pc = "exit" =>
            /\ dones = {Len(sp)}
            /\ Len(sp) >= 1
            /\ sp[Len(sp)].scanned_dirs = Cardinality(scan.entered)
            /\ sp[Len(sp)].scanned_files = Cardinality(scan.visited)
            /\ sp[Len(sp)].scanned_dirs = scan.dirs
            /\ sp[Len(sp)].scanned_files = scan.files

\* a cancelled scan ended part-way, its receivers gone, and sent done:true
C20_Witness ==
    /\ scan.pc = "exit"
    /\ abort
    /\ ~rx.alive
    /\ scan.files >= 1
    /\ Cardinality(scan.visited) < Cardinality({p \in DOMAIN fs : fs[p] # "dir"})

\* C22: while a search is on display the foreground's next step is always
\* possible, whatever the channels hold and wherever the threads stand: the
\* poll's drain of the result channel and cancel_search before a poll, the
\* drain of the progress channel within one; and none of the three moves or
\* waits for a thread.
C22_ForegroundNeverBlocks ==
    /\ [](view_mode.kind = "Searching" =>
            IF view_mode.polling THEN ENABLED PollProgress
            ELSE ENABLED PollResults /\ ENABLED cancel_search)
    /\ [][(PollResults \/ PollProgress \/ cancel_search) =>
            (scan' = scan /\ old_scan' = old_scan)]_vars

\* a search is on display with both channels empty, its thread and the thread
\* of the search before still running
C22_Witness ==
    /\ view_mode.kind = "Searching"
    /\ ~view_mode.polling
    /\ rx.alive
    /\ rx.res = <<>>
    /\ rx.prog = <<>>
    /\ scan.pc \notin {"none", "exit"}
    /\ old_scan.pc \notin {"none", "exit"}

Files(f) == {p \in DOMAIN f : f[p] # "dir"}
SeqRange(q) == {q[i] : i \in 1..Len(q)}

\* C23: a search started while the thread of the search before is running
\* leaves that thread its own flag as it was: no step but a further
\* start_search, which hands on another thread's flag, changes it, and
\* cancel_search sets the flag of the newest search only.  The earlier thread's
\* sends reach no channel, so all that the newest session holds or has queued
\* is what its own thread sent; and the earlier thread, its flag unset, ends
\* having visited every file and sent done:true.
C23_SecondSearchLeavesFirst ==
    /\ [][(old_abort' # old_abort => start_search)
           /\ (start_search /\ Running(scan) => (old_abort' = abort /\ old_scan' = scan))
           /\ (cancel_search => (abort' /\ old_abort' = old_abort))
           /\ (OrphanStep => rx' = rx)]_vars
    /\ [](/\ view_mode.kind = "Searching" => view_mode.results \o rx.res = scan.sent_res
          /\ (old_scan.pc = "exit" /\ ~old_abort /\ denied = {}) =>
                /\ old_scan.visited = Files(fs)
                /\ SeqRange(old_scan.sent_res) = {p \in Files(fs) : Matches(p, search_query)}
                /\ old_scan.sent_prog[Len(old_scan.sent_prog)].done)

\* the second search was started while the first ran and was then cancelled;
\* the first went on to the end of the tree
C23_Witness ==
    /\ old_scan.pc = "exit"
    /\ ~old_abort
    /\ abort
    /\ denied = {}
    /\ old_scan.visited = Files(fs)
    /\ Len(old_scan.sent_res) >= 1
    /\ scan.pc = "exit"
    /\ Cardinality(scan.visited) < Cardinality(Files(fs))

\* the entries a walk from the root comes to: those with no unreadable
\* directory above them
Reached(f, den) ==
    {p \in DOMAIN f : \A i \in 0..(Len(p) - 1) : SubSeq(p, 1, i) \notin den}

\* C24: a directory that cannot be read, the root included, is not counted
\* and nothing is sent about it; every message is either the progress of a
\* directory that was read, or the result or progress of a file in one, or
\* the final done:true.  A scan that was not stopped has at its end read every
\* readable directory it came to and visited every file in them, the
\* siblings of an unreadable directory included, with one progress message
\* for each and done:true as the last.
C24_UnreadableSkipped ==
    /\ scan.entered \cap denied = {}
    /\ scan.dirs = Cardinality(scan.entered)
    /\ \A i \in 1..Len(scan.sent) :
          LET n == scan.sent[i]
          IN /\ n.kind \in {"res", "prog"}
             /\ ~n.done => /\ n.path \notin denied
                            /\ n.path \in scan.entered \cup scan.visited
                            /\ n.kind = "res" => n.path \in scan.visited
    /\ (scan.pc = "exit" /\ ~scan.saw) =>
          /\ scan.entered = {p \in Reached(fs, denied) : fs[p] = "dir"} \ denied
          /\ scan.visited = {p \in Reached(fs, denied) : fs[p] # "dir"}
          /\ Len(scan.sent_prog) = Cardinality(scan.entered) + Cardinality(scan.visited) + 1
          /\ scan.sent_prog[Len(scan.sent_prog)] =
                [scanned_files |-> Cardinality(scan.visited),
                 scanned_dirs |-> Cardinality(scan.entered), done |-> TRUE]

\* the directory a/fo could not be read; the scan went on to its sibling
\* a/fox, listed after it, and ended with two directories and one file
C24_Witness ==
    /\ scan.pc = "exit"
    /\ ~scan.saw
    /\ denied = {<< <<"a">>, <<"f", "o">> >>}
    /\ read_dir(fs, << <<"a">> >>)[1] \in denied
    /\ scan.visited = {<< <<"a">>, <<"f", "o", "x">> >>}
    /\ scan.dirs = 2
    /\ scan.sent_prog[Len(scan.sent_prog)].done

\* C28: along the progress messages of one scan neither counter decreases;
\* every done:false message has exactly one counter one higher than the
\* message before it (than (0,0) for the first) and the other the same; what
\* is sent about an entry comes after the progress message of the directory
\* that holds it; and a file's result comes before that file's progress.
C28_ProgressOrdering ==
    LET sp == scan.sent_prog
        st == scan.sent
        files_before(i) == IF i = 1 THEN 0 ELSE sp[i - 1].scanned_files
        dirs_before(i) == IF i = 1 THEN 0 ELSE sp[i - 1].scanned_dirs
    IN /\ \A i \in 1..Len(sp) :
            /\ sp[i].scanned_files >= files_before(i)
            /\ sp[i].scanned_dirs >= dirs_before(i)
            /\ ~sp[i].done =>
                 \/ /\ sp[i].scanned_files = files_before(i) + 1
                    /\ sp[i].scanned_dirs = dirs_before(i)
                 \/ /\ sp[i].scanned_files = files_before(i)
                    /\ sp[i].scanned_dirs = dirs_before(i) + 1
       /\ \A i \in 1..Len(st) :
            /\ (~st[i].done /\ st[i].path # Root) =>
                 \E j \in 1..(i - 1) :
                    /\ st[j].kind = "prog"
                    /\ st[j].path = SubSeq(st[i].path, 1, Len(st[i].path) - 1)
            /\ st[i].kind = "res" =>
                 \A j \in 1..(i - 1) : st[j].path # st[i].path

\* a scan two directories deep sent a file's result and, right after it,
\* that file's progress
C28_Witness ==
    /\ Len(scan.sent_prog) >= 4
    /\ \E i \in 1..(Len(scan.sent) - 1) :
          /\ scan.sent[i].kind = "res"
          /\ Len(scan.sent[i].path) = 3
          /\ scan.sent[i + 1].kind = "prog"
          /\ scan.sent[i + 1].path = scan.sent[i].path
          /\ scan.sent[i + 1].files = scan.sent[i].files

\* C29: of the messages a scan sends while its flag is set, at most one is a
\* result and at most one a done:false progress message; and a scan whose
\* flag is set at its first check sends no result and, as its only progress
\* message, done:true with both counters 0.
C29_BoundedCancelLatency ==
    LET st == scan.sent
        late == {i \in 1..Len(st) : st[i].after}
    IN /\ Cardinality({i \in late : st[i].kind = "res"}) <= 1
       /\ Cardinality({i \in late : st[i].kind = "prog" /\ ~st[i].done}) <= 1
       /\ scan.first_check = "set" =>
            /\ scan.sent_res = <<>>
            /\ \A i \in 1..Len(scan.sent_prog) :
                 scan.sent_prog[i] = [scanned_files |-> 0, scanned_dirs |-> 0, done |-> TRUE]
            /\ scan.pc = "exit" => Len(scan.sent_prog) = 1

\* the flag was set while the scan was at a matching file: the result and the
\* progress of that file were still sent, then done:true
C29_Witness ==
    /\ scan.pc = "exit"
    /\ scan.first_check = "clear"
    /\ \E i \in 1..(Len(scan.sent) - 2) :
          /\ scan.sent[i].kind = "res"
          /\ scan.sent[i].after
          /\ scan.sent[i + 1].kind = "prog"
          /\ scan.sent[i + 1].after
          /\ scan.sent[i + 2].done
          /\ i + 2 = Len(scan.sent)
    /\ Cardinality(scan.visited) < Cardinality(Files(fs))

\* C30: after every poll the session holds no more results than the
\* scanned_files it took from the last progress message; and once it holds
\* done, the thread has ended and the counters on display are its last.
C30_DisplayConsistent ==
    (view_mode.kind = "Searching" /\ ~view_mode.polling) =>
        /\ Len(view_mode.results) <= view_mode.scanned_files
        /\ view_mode.done =>
             /\ scan.pc = "exit"
             /\ view_mode.scanned_files = scan.files
             /\ view_mode.scanned_dirs = scan.dirs

(***************************************************************************)
(* One search under a fair scheduler: the spawned thread, while it can     *)
(* take a step, is eventually given one; nothing is asked of the           *)
(* foreground.                                                             *)
(***************************************************************************)
ThreadNext ==
    \/ WalkAbortCheck
    \/ WalkReadDir
    \/ WalkNextEntry
    \/ WalkEntry
    \/ WalkFileProgress
    \/ ThreadFinal

\* the first start_search of a session
first_search == scan.pc = "none" /\ start_search

OneSearchNext ==
    \/ first_search
    \/ ThreadNext
    \/ PollResults
    \/ PollProgress
    \/ cancel_search
    \/ OpenResult

OneSearchFairSpec == SearchInit /\ [][OneSearchNext]_vars /\ WF_vars(ThreadNext)

\* C21: a scan that has read its flag as set sends no result from then on;
\* and a running scan whose flag is set goes on, with no step asked of the
\* foreground, to send done:true and exit.
C21_CancelledScanEnds ==
    /\ [](\A i \in 1..Len(scan.sent) : scan.sent[i].kind = "res" => ~scan.sent[i].saw)
    /\ (Running(scan) /\ abort) ~> (scan.pc = "exit" /\ scan.sent[Len(scan.sent)].done)

\* a scan read its flag as set after it had sent a result, and has exited
\* with files left unvisited
C21_Witness ==
    /\ scan.pc = "exit"
    /\ abort
    /\ scan.saw
    /\ Len(scan.sent_res) >= 1
    /\ scan.sent[Len(scan.sent)].done
    /\ Cardinality(scan.visited) < Cardinality({p \in DOMAIN fs : fs[p] # "dir"})

(***************************************************************************)
(* copy and mv step by step (CopyFairSpec): copy_rec as the calls it       *)
(* makes, one frame of job.stack for each call of copy_rec that has not    *)
(* returned.  A frame is at "enter" before its first std::fs call and at   *)
(* "loop" inside its for loop, rest being what read_dir has yet to yield;  *)
(* the order in which a directory yields its entries is not fixed.  The    *)
(* code runs on the calling thread, so a step that can be taken is taken.  *)
(***************************************************************************)
\* the directories handed to copy and mv as to_dir: every directory, those
\* inside the source and the source itself included, and one that is missing
JobDirs(f) == {p \in DOMAIN f : f[p] = "dir"} \cup {NewDir}

Frame(from, to) == [from |-> from, to |-> to, stage |-> "enter", rest |-> {}]
TopFrame == job.stack[Len(job.stack)]

JobFrame ==
    /\ UNCHANGED <<ops_hist, call, prev, nops, pushed, evicted, popped, ret, hpre>>
    /\ ClipVarsUnchanged
    /\ UNCHANGED <<search_query, denied, scan, abort, rx, view_mode, old_scan, old_abort>>
    /\ UNCHANGED <<nav_hist, current_path, nav_call>>

\* the call ends: Ok or Err goes back to the caller of copy or mv
Finish(ok, f, via) ==
    /\ fs' = f
    /\ job' = [job EXCEPT !.pc = "done", !.ok = ok, !.stack = <<>>, !.via = via]

\* `?` on an Err: every frame returns it
Fail(f) == Finish(FALSE, f, IF job.op = "mv" THEN "copy_failed" ELSE job.via)

\* Ok(()) from the innermost copy_rec: back in the caller's for loop, or,
\* from the outermost, in copy (which is done) or move_rec (which removes)
ReturnOk(f, k) ==
    IF Len(job.stack) > 1
    THEN /\ fs' = f
         /\ job' = [job EXCEPT !.stack = SubSeq(@, 1, Len(@) - 1), !.k = k]
    ELSE IF job.op = "copy" THEN Finish(TRUE, f, job.via)
    ELSE /\ fs' = f
         /\ job' = [job EXCEPT !.pc = "remove", !.stack = <<>>, !.k = k]

\* copy and mv up to the first call of copy_rec
JobStart ==
    /\ job.pc = "idle"
    /\ \E op \in {"copy", "mv"}, from \in Sources(fs), to_dir \in JobDirs(fs), k \in Faults :
         LET dst == unique_in(fs, to_dir, file_name(from))
             started == [pc |-> "copy", op |-> op, from |-> from, dst |-> dst,
                         stack |-> <<Frame(from, dst)>>, ok |-> FALSE, k |-> k,
                         fault |-> k, via |-> "copied"]
         IN IF op = "copy" THEN fs' = fs /\ job' = started
            ELSE \E c \in {create_dir_all(fs, parent(dst), k)} :
                    IF ~c.ok
                    THEN /\ fs' = c.fs
                         /\ job' = [started EXCEPT !.pc = "done", !.stack = <<>>,
                                                   !.via = "parent_failed"]
                    ELSE \E r \in {fs_rename(c.fs, from, dst)} :
                            IF r.ok
                            THEN /\ fs' = r.fs
                                 /\ job' = [started EXCEPT !.pc = "done", !.stack = <<>>,
                                                           !.ok = TRUE, !.via = "renamed"]
                            ELSE /\ fs' = c.fs
                                 /\ job' = [started EXCEPT !.k = c.k, !.via = "fallback"]
    /\ pre' = fs
    /\ JobFrame

\* copy_rec lines 18-20 and 26-31: a directory is created at the
\* destination and read, a file is copied
CopyEnter ==
    /\ job.pc = "copy"
    /\ TopFrame.stage = "enter"
    /\ IF is_dir(fs, TopFrame.from)
       THEN \E c \in {create_dir_all(fs, TopFrame.to, job.k)} :
               IF ~c.ok \/ c.k = 1 THEN Fail(c.fs)
               ELSE /\ fs' = c.fs
                    /\ job' = [job EXCEPT !.stack[Len(job.stack)].stage = "loop",
                                          !.stack[Len(job.stack)].rest = Entries(c.fs, TopFrame.from),
                                          !.k = Tick(c.k)]
       ELSE \E c \in {create_dir_all(fs, parent(TopFrame.to), job.k)} :
               IF ~c.ok THEN Fail(c.fs)
               ELSE \E r \in {fs_copy(c.fs, TopFrame.from, TopFrame.to, c.k)} :
                       IF r.ok THEN ReturnOk(r.fs, r.k) ELSE Fail(r.fs)
    /\ UNCHANGED pre
    /\ JobFrame

\* a for loop that starts the directory over after every entry
CopyLoop_rescan ==
    /\ job.pc = "copy"
    /\ TopFrame.stage = "loop"
    /\ IF TopFrame.rest = {} THEN ReturnOk(fs, job.k)
       ELSE \E e \in TopFrame.rest :
               /\ fs' = fs
               /\ job' = [job EXCEPT !.stack = Append(job.stack,
                                          Frame(e, join(TopFrame.to, file_name(e))))]
    /\ UNCHANGED pre
    /\ JobFrame

\* copy_rec lines 20-25: the next entry of the for loop, or its end
CopyLoop ==
    /\ job.pc = "copy"
    /\ TopFrame.stage = "loop"
    /\ IF TopFrame.rest = {} THEN ReturnOk(fs, job.k)
       ELSE \E e \in TopFrame.rest :
               /\ fs' = fs
               /\ job' = [job EXCEPT !.stack =
                            Append([job.stack EXCEPT ![Len(job.stack)].rest = @ \ {e}],
                                   Frame(e, join(TopFrame.to, file_name(e))))]
    /\ UNCHANGED pre
    /\ JobFrame

\* move_rec line 43: the source is removed after the copy
JobRemove ==
    /\ job.pc = "remove"
    /\ \E rm \in {remove_rec(fs, job.from)} : Finish(rm.ok, rm.fs, "copied_removed")
    /\ UNCHANGED pre
    /\ JobFrame

CopyInit ==
    /\ fs \in InitFs
    /\ ops_hist = OpsHistory_new(HistCapacity)
    /\ pre = fs
    /\ call = NoCall
    /\ prev = [call |-> NoCall, pre |-> fs]
    /\ nops = 0
    /\ pushed = 0
    /\ evicted = {}
    /\ popped = <<>>
    /\ ret = [op |-> "none", some |-> FALSE, val |-> 0]
    /\ hpre = ops_hist
    /\ clipboard = Clipboard_default
    /\ cpre = clipboard
    /\ pcall = NoPaste
    /\ SearchIdle
    /\ NavIdle

CopyRun == CopyEnter \/ CopyLoop \/ JobRemove

CopyNext == JobStart \/ CopyRun

CopyFairSpec == CopyInit /\ [][CopyNext]_vars /\ WF_vars(CopyRun)

\* C31: every copy, and every mv whether it renames or falls back to
\* copy-then-remove, comes to its end with Ok or Err, whatever the source
\* and the target directory; and when the destination lies inside the
\* source, all that the source held before the call is there, unchanged,
\* throughout the call and after it.
C31_CopyTerminates ==
    /\ (job.pc \in {"copy", "remove"}) ~> (job.pc = "done")
    /\ []((job.pc # "idle" /\ starts_with(job.dst, job.from)) => Kept(pre, fs, job.from))

\* a mv of a directory into itself, with no I/O fault, fell back to
\* copy_rec, which nested copies of the source inside it until the path got
\* too long, and ended with Err
C31_Witness ==
    /\ job.pc = "done"
    /\ job.op = "mv"
    /\ job.via = "copy_failed"
    /\ job.fault = 0
    /\ starts_with(job.dst, job.from)
    /\ is_dir(pre, job.from)
    /\ Cardinality(DOMAIN fs) >= Cardinality(DOMAIN pre) + 2
    /\ Kept(pre, fs, job.from)

====
